---- MODULE Spec2Model ----
(***************************************************************************)
(* Campaign execution engine of inshora-backend.                           *)
(*                                                                         *)
(* Direct path : startCampaign / pauseCampaign request handlers and the    *)
(*               detached processCampaignDirectly tasks                    *)
(*               (src/src/controllers/leads.controller.ts).                *)
(* Queue path  : the Bull processors 'start-campaign' and                  *)
(*               'process-contact' (src/src/queues/campaign.queue.ts).     *)
(*                                                                         *)
(* The Campaign document lives in the store (db).  Every handler works on  *)
(* its own in-memory copy obtained by findById/findOne; document.save()    *)
(* sends only the paths changed on that copy: a $set for a scalar that     *)
(* was assigned a different value and a $push for elements pushed on an    *)
(* array.  Every `await` of the source is a step boundary.                 *)
(***************************************************************************)
EXTENDS Integers, Sequences, FiniteSets, TLC

\* ---- bounds -------------------------------------------------------------
MaxContacts == 2      \* contacts of the campaign
MaxStarts   == 2      \* startCampaign requests issued in one behaviour
MaxPauses   == 1      \* pauseCampaign requests issued in one behaviour
MaxFaults   == 2      \* store operations that throw in one behaviour
MaxWorkers  == 2      \* queue jobs that can be active at the same time
MaxTime     == 8      \* last second of the queue clock
MaxGets     == 2      \* getSettings requests issued in one behaviour
MaxUpdates  == 2      \* updateSettings requests issued in one behaviour
MaxCalls    == 5      \* calls of requestFn whose outcome is supplied

\* ---- input domains ------------------------------------------------------
Types == {"sms"}
ContactKinds == {[phone |-> TRUE, email |-> TRUE], [phone |-> FALSE, email |-> TRUE]}
SettingsKinds == {"complete"}
AllTypes == {"sms", "email", "call", "all"}
AllContactKinds == [phone : BOOLEAN, email : BOOLEAN]
AllSettingsKinds == {"none", "incomplete", "complete"}
Outcomes == {"sent", "failed"}

VARIABLES
    ctype,      \* campaign.type
    contacts,   \* campaign.contacts
    settings,   \* the user's Settings document: "none", "incomplete", "complete"
    db,         \* the persisted Campaign document
    startsLeft, \* startCampaign requests the behaviour may still receive
    pausesLeft, \* pauseCampaign requests the behaviour may still receive
    pendStart,  \* startCampaign requests between their findOne and their save,
                \* counted by the status their findOne returned
    pendPause,  \* pauseCampaign requests between their findOne and their save
    tasks,      \* processCampaignDirectly invocations
    faultsLeft, \* store operations that may still throw in the behaviour
    jobs,       \* the Bull queue 'campaign-processing': waiting, active and failed jobs
    now,        \* queue clock, in seconds
    redisUp,    \* the Redis backend of the queue accepts connections
    pauseMark   \* history: -1, or the number of leading contacts recorded or in
                \*          progress when the last pause was accepted, until a start
                \*          is accepted

VARIABLES
    stored,     \* version of the user's Settings document in the store
    cached,     \* value under the user's key in the settings cache, -1 for none
    updated,    \* history: latest version written by an updateSettings
                \*          request that has completed
    gets,       \* getSettings requests
    upds,       \* updateSettings requests
    outcomes,   \* what the successive calls of requestFn end with
    retries,    \* retryRequest: the parameter `retries` of the current invocation
    calls,      \* retryRequest: calls of requestFn made so far
    rpc         \* retryRequest: position

settingsCache == <<stored, cached, updated, gets, upds>>
retry == <<outcomes, retries, calls, rpc>>

vars == <<ctype, contacts, settings, db, startsLeft, pausesLeft, pendStart, pendPause,
         tasks, faultsLeft, jobs, now, redisUp, pauseMark, settingsCache, retry>>

\* what no step of a campaign run writes: its inputs, and the state of the
\* settings cache and of retryRequest
campaign == <<ctype, contacts, settings, settingsCache, retry>>

\* no settings request and no retryRequest invocation is under way
ServicesIdle ==
    /\ stored = 0 /\ cached = -1 /\ updated = 0 /\ gets = <<>> /\ upds = <<>>
    /\ outcomes = <<>> /\ retries = 0 /\ calls = 0 /\ rpc = "idle"
queue == <<jobs, now, redisUp>>

reqs == <<startsLeft, pausesLeft, pendStart, pendPause>>

\* ---- Campaign model -----------------------------------------------------

\* leads.controller.ts:294-295
MethodsToExecute(type) ==
    IF type = "all" THEN <<"sms", "email", "call">> ELSE <<type>>

\* leads.controller.ts:387-388
OverallStatus(methods) ==
    IF \A k \in 1..Len(methods) : methods[k].status = "sent" THEN "success"
    ELSE IF \E k \in 1..Len(methods) : methods[k].status = "sent" THEN "partial"
    ELSE "failed"

\* variant of DirectSendOutcomes in which a missing contact field does not
\* make the channel attempt throw
SendWithoutFieldCheck(method, contact) == Outcomes

\* leads.controller.ts:304-333: the statuses one channel attempt can end with.
\* A missing contact field (or missing settings for a call) throws before the
\* gateway is called; otherwise the gateway answers or throws.
DirectSendOutcomes(method, contact) ==
    CASE method = "sms"   -> IF contact.phone THEN Outcomes ELSE {"failed"}
      [] method = "email" -> IF contact.email THEN Outcomes ELSE {"failed"}
      [] method = "call"  -> IF contact.phone /\ settings # "none" THEN Outcomes ELSE {"failed"}

\* Campaign.ts:63-118 and the pre('save') hook at 123-127: a created campaign
NewCampaign(cs) ==
    [status |-> "draft", results |-> <<>>, successCount |-> 0, failureCount |-> 0,
     totalContacts |-> Len(cs)]

\* a save of a copy loaded with status `loaded` after `status = s` was assigned:
\* the path is sent only when the assignment changed the copy
SetStatus(doc, loaded, s) == IF loaded = s THEN doc ELSE [doc EXCEPT !.status = s]

CanFault == faultsLeft > 0

\* ---- processCampaignDirectly -------------------------------------------

NewTask ==
    [pc |-> "load", i |-> 0, m |-> 1,
     status |-> "draft", successCount |-> 0, failureCount |-> 0,
     methods |-> <<>>, succ |-> 0, inc |-> "none", pending |-> <<>>,
     resumed |-> FALSE,    \* history: launched on a campaign that was paused
     sawPause |-> FALSE,   \* history: the re-read at 283-284 found paused
     heldAt |-> -1]        \* history: the contact in progress when a pause was
                           \* accepted, while the status has been paused ever since

\* a task that has ended keeps nothing but how it ended
Ended(how) == [NewTask EXCEPT !.pc = how]

SetTask(t, r) == tasks' = [tasks EXCEPT ![t] = r]

\* history bookkeeping: the persisted status stopped being paused
Release(ts) == [t \in DOMAIN ts |-> [ts[t] EXCEPT !.heldAt = -1]]

\* history bookkeeping: a pause was accepted; the tasks that are past the
\* status re-read of their contact (in its channel loop, or saving its result)
Hold(ts) ==
    [t \in DOMAIN ts |->
        IF ts[t].pc = "send" \/ (ts[t].pc = "save" /\ ts[t].methods # <<>>)
        THEN [ts[t] EXCEPT !.heldAt = ts[t].i]
        ELSE ts[t]]

\* history bookkeeping: the contacts 0..k-1 that have a result or are being
\* processed by a task
Reached(results, ts) ==
    LET ids == {results[k].contactId : k \in 1..Len(results)}
               \cup {ts[t].i : t \in {u \in DOMAIN ts : ts[u].pc \in {"send", "save"}}}
    IN IF ids = {} THEN 0 ELSE 1 + CHOOSE x \in ids : \A y \in ids : y <= x

\* leads.controller.ts:270: the contact loop starts at index 0 whatever
\* results the loaded campaign already has
LoopStart(results) == 0

\* leads.controller.ts:261-268: findById and Settings.findOne
TaskLoad(t) ==
    /\ tasks[t].pc = "load"
    /\ \/ /\ CanFault
          /\ faultsLeft' = faultsLeft - 1
          /\ SetTask(t, [tasks[t] EXCEPT !.pc = "catch"])
       \/ /\ faultsLeft' = faultsLeft
          /\ SetTask(t, [tasks[t] EXCEPT
                 !.status = db.status,
                 !.successCount = db.successCount,
                 !.failureCount = db.failureCount,
                 !.i = LoopStart(db.results),
                 !.pc = IF LoopStart(db.results) < Len(contacts) THEN "check" ELSE "final"])
    /\ UNCHANGED <<campaign, queue, db, reqs, pauseMark>>

\* leads.controller.ts:278-280: the 1000 ms wait before every contact but the first
TaskDelay(t) ==
    /\ tasks[t].pc = "delay"
    /\ SetTask(t, [tasks[t] EXCEPT !.pc = "check"])
    /\ UNCHANGED <<campaign, queue, db, reqs, faultsLeft, pauseMark>>

\* variant of BreakOnPause in which the status re-read never stops the loop
NoPauseCheck(status) == FALSE

\* leads.controller.ts:284: the loop is left when the re-read status is paused
BreakOnPause(status) == status = "paused"

\* leads.controller.ts:383-390: the result pushed for contact i
ResultOf(i, methods) ==
    [contactId |-> i, methods |-> methods, overallStatus |-> OverallStatus(methods)]

\* leads.controller.ts:283-287, and 377-390 when the re-read throws: the
\* per-contact catch counts a failure and the result is pushed with no methods
TaskCheck(t) ==
    /\ tasks[t].pc = "check"
    /\ \/ /\ CanFault
          /\ faultsLeft' = faultsLeft - 1
          /\ SetTask(t, [tasks[t] EXCEPT
                 !.failureCount = @ + 1, !.inc = "failure",
                 !.methods = <<>>, !.succ = 0,
                 !.pending = <<ResultOf(tasks[t].i, <<>>)>>,
                 !.pc = "save"])
       \/ /\ faultsLeft' = faultsLeft
          /\ IF BreakOnPause(db.status)
             THEN SetTask(t, [tasks[t] EXCEPT !.sawPause = TRUE, !.pc = "final"])
             ELSE SetTask(t, [tasks[t] EXCEPT
                      !.methods = <<>>, !.succ = 0, !.m = 1, !.pc = "send"])
    /\ UNCHANGED <<campaign, queue, db, reqs, pauseMark>>

\* leads.controller.ts:358-369: which counter the processed contact increments
CounterFor(succ, nMethods) ==
    IF succ = nMethods THEN "success" ELSE IF succ > 0 THEN "success" ELSE "failure"

\* leads.controller.ts:298-356 one channel attempt (with its 500 ms pause when
\* several channels are executed); after the last one 358-390: counters, push
TaskSend(t) ==
    /\ tasks[t].pc = "send"
    /\ LET a       == tasks[t]
           todo    == MethodsToExecute(ctype)
           method  == todo[a.m]
       IN \E st \in DirectSendOutcomes(method, contacts[a.i + 1]) :
            LET methods == Append(a.methods, [method |-> method, status |-> st])
                succ    == IF st = "sent" THEN a.succ + 1 ELSE a.succ
            IN IF a.m < Len(todo)
               THEN SetTask(t, [a EXCEPT !.methods = methods, !.succ = succ, !.m = a.m + 1])
               ELSE LET inc == CounterFor(succ, Len(todo))
                    IN SetTask(t, [a EXCEPT
                           !.methods = methods, !.succ = succ,
                           !.inc = inc,
                           !.successCount = IF inc = "success" THEN @ + 1 ELSE @,
                           !.failureCount = IF inc = "failure" THEN @ + 1 ELSE @,
                           !.pending = <<ResultOf(a.i, methods)>>,
                           !.pc = "save"])
    /\ UNCHANGED <<campaign, queue, db, reqs, faultsLeft, pauseMark>>

\* leads.controller.ts:392 campaign.save() of the task's copy: $push of the
\* pushed result, $set of the counter this iteration changed
SaveContact(doc, a) ==
    [doc EXCEPT
        !.results = doc.results \o a.pending,
        !.successCount = IF a.inc = "success" THEN a.successCount ELSE @,
        !.failureCount = IF a.inc = "failure" THEN a.failureCount ELSE @]

\* leads.controller.ts:392-393 and the loop header at 270
TaskSave(t) ==
    /\ tasks[t].pc = "save"
    /\ \/ /\ CanFault
          /\ faultsLeft' = faultsLeft - 1
          /\ SetTask(t, [tasks[t] EXCEPT !.pc = "catch"])
          /\ db' = db
       \/ /\ faultsLeft' = faultsLeft
          /\ db' = SaveContact(db, tasks[t])
          /\ SetTask(t, [tasks[t] EXCEPT
                 !.pending = <<>>, !.inc = "none", !.methods = <<>>, !.succ = 0, !.m = 1,
                 !.i = @ + 1,
                 !.pc = IF tasks[t].i + 1 < Len(contacts) THEN "delay" ELSE "final"])
    /\ UNCHANGED <<campaign, queue, reqs, pauseMark>>

\* leads.controller.ts:396: the status assigned after the contact loop
StatusAfterLoop(sawPause) == "completed"

\* leads.controller.ts:395-397
TaskFinal(t) ==
    /\ tasks[t].pc = "final"
    /\ \/ /\ CanFault
          /\ faultsLeft' = faultsLeft - 1
          /\ SetTask(t, [tasks[t] EXCEPT !.pc = "catch"])
          /\ db' = db
       \/ /\ faultsLeft' = faultsLeft
          /\ db' = SetStatus(db, tasks[t].status, StatusAfterLoop(tasks[t].sawPause))
          /\ tasks' = [IF db'.status = "paused" THEN tasks ELSE Release(tasks)
                          EXCEPT ![t] = Ended("done")]
    /\ UNCHANGED <<campaign, queue, reqs, pauseMark>>

\* leads.controller.ts:406-408: the fatal handler loads the campaign again
TaskCatch(t) ==
    /\ tasks[t].pc = "catch"
    /\ \/ /\ CanFault
          /\ faultsLeft' = faultsLeft - 1
          /\ SetTask(t, Ended("crashed"))
       \/ /\ faultsLeft' = faultsLeft
          /\ SetTask(t, [tasks[t] EXCEPT !.status = db.status, !.pc = "catchSave"])
    /\ UNCHANGED <<campaign, queue, db, reqs, pauseMark>>

\* leads.controller.ts:409-412; a rejection here reaches only the logging
\* .catch of startCampaign (560-562)
TaskCatchSave(t) ==
    /\ tasks[t].pc = "catchSave"
    /\ \/ /\ CanFault
          /\ faultsLeft' = faultsLeft - 1
          /\ SetTask(t, Ended("crashed"))
          /\ db' = db
       \/ /\ faultsLeft' = faultsLeft
          /\ db' = SetStatus(db, tasks[t].status, "paused")
          /\ SetTask(t, Ended("done"))
    /\ UNCHANGED <<campaign, queue, reqs, pauseMark>>

\* ---- request handlers ---------------------------------------------------

\* leads.controller.ts:537-551: startCampaign goes on unless running or completed
StartAllowed(status) == status \notin {"running", "completed"}

\* leads.controller.ts:587: pauseCampaign goes on only from running
PauseAllowed(status) == status = "running"

\* leads.controller.ts:522-551: findOne and the two status checks; a request
\* that passes them waits for its save
StartRead ==
    /\ startsLeft > 0
    /\ startsLeft' = startsLeft - 1
    /\ pendStart' = IF StartAllowed(db.status)
                    THEN [pendStart EXCEPT ![db.status] = @ + 1]
                    ELSE pendStart
    /\ UNCHANGED <<campaign, queue, db, pausesLeft, pendPause, tasks, faultsLeft, pauseMark>>

\* leads.controller.ts:556-562: status = running is saved, then the detached
\* processCampaignDirectly call runs up to its first await
StartSave(seen) ==
    /\ pendStart[seen] > 0
    /\ pendStart' = [pendStart EXCEPT ![seen] = @ - 1]
    /\ db' = SetStatus(db, seen, "running")
    /\ tasks' = Append(Release(tasks), [NewTask EXCEPT !.resumed = (seen = "paused")])
    /\ pauseMark' = -1
    /\ UNCHANGED <<campaign, queue, startsLeft, pausesLeft, pendPause, faultsLeft>>

\* leads.controller.ts:575-592
PauseRead ==
    /\ pausesLeft > 0
    /\ pausesLeft' = pausesLeft - 1
    /\ pendPause' = IF PauseAllowed(db.status) THEN pendPause + 1 ELSE pendPause
    /\ UNCHANGED <<campaign, queue, db, startsLeft, pendStart, tasks, faultsLeft, pauseMark>>

\* leads.controller.ts:594-595
PauseSave ==
    /\ pendPause > 0
    /\ pendPause' = pendPause - 1
    /\ db' = SetStatus(db, "running", "paused")
    /\ tasks' = Hold(tasks)
    /\ pauseMark' = Reached(db.results, tasks)
    /\ UNCHANGED <<campaign, queue, startsLeft, pausesLeft, pendStart, faultsLeft>>

\* ---- direct path specification -----------------------------------------

\* a campaign as createCampaign stores it (leads.controller.ts:448-453,
\* validator.ts:26-28: at least one contact), and what the behaviour may receive
InitWith(types, kinds, sets, ups, nStarts, nPauses, nFaults) ==
    /\ ctype \in types
    /\ \E n \in 1..MaxContacts : contacts \in [1..n -> kinds]
    /\ settings \in sets
    /\ db = NewCampaign(contacts)
    /\ startsLeft = nStarts /\ pausesLeft = nPauses /\ faultsLeft = nFaults
    /\ pendStart = [draft |-> 0, paused |-> 0] /\ pendPause = 0
    /\ ServicesIdle
    /\ tasks = <<>>
    /\ jobs = <<>> /\ now = 0 /\ redisUp \in ups
    /\ pauseMark = -1

Init == InitWith(Types, ContactKinds, SettingsKinds, BOOLEAN, MaxStarts, MaxPauses, MaxFaults)

Next ==
    \/ StartRead
    \/ PauseRead
    \/ \E seen \in DOMAIN pendStart : StartSave(seen)
    \/ PauseSave
    \/ \E t \in DOMAIN tasks : TaskLoad(t)
    \/ \E t \in DOMAIN tasks : TaskDelay(t)
    \/ \E t \in DOMAIN tasks : TaskCheck(t)
    \/ \E t \in DOMAIN tasks : TaskSend(t)
    \/ \E t \in DOMAIN tasks : TaskSave(t)
    \/ \E t \in DOMAIN tasks : TaskFinal(t)
    \/ \E t \in DOMAIN tasks : TaskCatch(t)
    \/ \E t \in DOMAIN tasks : TaskCatchSave(t)

Spec == Init /\ [][Next]_vars

\* one startCampaign request on a campaign of any type, with any contacts
InitOnce == InitWith(AllTypes, AllContactKinds, AllSettingsKinds, BOOLEAN, 1, MaxPauses, MaxFaults)

SpecOnce == InitOnce /\ [][Next]_vars

\* ---- createCampaign -----------------------------------------------------

\* no campaign document exists yet
NoCampaign ==
    [status |-> "absent", results |-> <<>>, successCount |-> 0, failureCount |-> 0,
     totalContacts |-> 0]

\* the fields of req.body that are paths of the Campaign schema besides the
\* validated ones: a status of the enum or none ("unset"), results, counters
Bodies ==
    [status : {"unset", "draft", "running", "paused", "completed"},
     results : {<<>>, <<ResultOf(0, <<>>)>>},
     successCount : 0..1,
     failureCount : 0..1]

\* Campaign.ts:63-127: the document Campaign.create builds from the given
\* fields: schema defaults for the absent ones, totalContacts from pre('save')
Created(body, cs) ==
    [status |-> IF body.status = "unset" THEN "draft" ELSE body.status,
     results |-> body.results,
     successCount |-> body.successCount,
     failureCount |-> body.failureCount,
     totalContacts |-> Len(cs)]

\* leads.controller.ts:448-453: Campaign.create({...req.body, userId})
CreateCampaign(body) ==
    /\ db = NoCampaign
    /\ db' = Created(body, contacts)
    /\ UNCHANGED <<campaign, queue, reqs, tasks, faultsLeft, pauseMark>>

\* before the campaign is created; one start, store faults as in Init
InitCreate ==
    /\ ctype \in Types
    /\ \E n \in 1..MaxContacts : contacts \in [1..n -> ContactKinds]
    /\ settings \in SettingsKinds
    /\ db = NoCampaign
    /\ startsLeft = 1 /\ pausesLeft = MaxPauses /\ faultsLeft = MaxFaults
    /\ pendStart = [draft |-> 0, paused |-> 0] /\ pendPause = 0
    /\ ServicesIdle
    /\ tasks = <<>>
    /\ jobs = <<>> /\ now = 0 /\ redisUp = FALSE
    /\ pauseMark = -1

\* the handlers answer 404 until the campaign exists (leads.controller.ts:527, 580)
NextCreate ==
    \/ \E body \in Bodies : CreateCampaign(body)
    \/ db # NoCampaign /\ Next

SpecCreate == InitCreate /\ [][NextCreate]_vars

\* ---- queue path: campaign.queue.ts --------------------------------------

Attempts == 3        \* defaultJobOptions.attempts
BackoffDelay == 2    \* defaultJobOptions.backoff.delay, 2000 ms
ContactDelay == 1    \* delay: i * 1000

\* campaign.queue.ts:16-19: exponential backoff before the retry that follows
\* the k-th failed attempt, in seconds
Backoff(k) == (2^k - 1) * BackoffDelay

NewJob(kind, idx, at) ==
    [kind |-> kind, idx |-> idx, st |-> "waiting", attemptsMade |-> 0, readyAt |-> at,
     pc |-> "load", status |-> "draft", successCount |-> 0, failureCount |-> 0,
     len |-> 0, pending |-> <<>>, inc |-> "none", complete |-> FALSE]

\* removeOnComplete: true (campaign.queue.ts:20)
Completed(j) == SubSeq(jobs, 1, j - 1) \o SubSeq(jobs, j + 1, Len(jobs))

\* variant of Failed in which a job is retried after its backoff however many
\* attempts were made
RetryAlways(j) ==
    [jobs EXCEPT ![j] =
        [NewJob(jobs[j].kind, jobs[j].idx, now + BackoffDelay) EXCEPT
            !.attemptsMade = jobs[j].attemptsMade + 1]]

\* the handler threw (campaign.queue.ts:75-78, 173-176): the job is retried
\* after its backoff until `attempts` attempts were made, then kept as failed
\* (removeOnFail: false, campaign.queue.ts:21)
Failed(j) ==
    LET job  == jobs[j]
        made == job.attemptsMade + 1
    IN [jobs EXCEPT ![j] =
           IF made < Attempts
           THEN [NewJob(job.kind, job.idx, now + Backoff(made)) EXCEPT !.attemptsMade = made]
           ELSE [NewJob(job.kind, job.idx, job.readyAt) EXCEPT
                    !.attemptsMade = made, !.st = "failed"]]

\* the queue clock moves on to the time a delayed job becomes ready
Tick ==
    /\ \E j \in DOMAIN jobs :
          /\ jobs[j].st = "waiting" /\ jobs[j].readyAt > now /\ jobs[j].readyAt <= MaxTime
          /\ now' = jobs[j].readyAt
    /\ UNCHANGED <<campaign, db, reqs, tasks, faultsLeft, jobs, redisUp, pauseMark>>

\* a worker connected to Redis takes the job that became ready first
JobTake(j) ==
    /\ redisUp
    /\ jobs[j].st = "waiting" /\ jobs[j].readyAt <= now
    /\ Cardinality({k \in DOMAIN jobs : jobs[k].st = "active"}) < MaxWorkers
    /\ \A k \in DOMAIN jobs \ {j} :
          jobs[k].st = "waiting" =>
              \/ jobs[k].readyAt > jobs[j].readyAt
              \/ jobs[k].readyAt = jobs[j].readyAt /\ k > j
    /\ jobs' = [jobs EXCEPT ![j].st = "active"]
    /\ UNCHANGED <<campaign, db, reqs, tasks, faultsLeft, now, redisUp, pauseMark>>

Running(j, kind, pc) ==
    jobs[j].st = "active" /\ jobs[j].kind = kind /\ jobs[j].pc = pc

\* campaign.queue.ts:46-49
StartJobLoad(j) ==
    /\ Running(j, "start", "load")
    /\ \/ /\ CanFault
          /\ faultsLeft' = faultsLeft - 1
          /\ jobs' = Failed(j)
       \/ /\ faultsLeft' = faultsLeft
          /\ jobs' = [jobs EXCEPT ![j].status = db.status, ![j].pc = "save"]
    /\ UNCHANGED <<campaign, db, reqs, tasks, now, redisUp, pauseMark>>

\* campaign.queue.ts:51-53
StartJobSave(j) ==
    /\ Running(j, "start", "save")
    /\ \/ /\ CanFault
          /\ faultsLeft' = faultsLeft - 1
          /\ jobs' = Failed(j)
          /\ UNCHANGED <<db, tasks, pauseMark>>
       \/ /\ faultsLeft' = faultsLeft
          /\ db' = SetStatus(db, jobs[j].status, "running")
          /\ tasks' = IF db'.status = "paused" THEN tasks ELSE Release(tasks)
          /\ pauseMark' = pauseMark
          /\ jobs' = IF Len(contacts) > 0
                     THEN [jobs EXCEPT ![j].pc = "enqueue", ![j].len = 0]
                     ELSE Completed(j)
    /\ UNCHANGED <<campaign, reqs, now, redisUp>>

\* campaign.queue.ts:56-74: one campaignQueue.add per contact, then return
StartJobEnqueue(j) ==
    /\ Running(j, "start", "enqueue")
    /\ \/ /\ CanFault
          /\ faultsLeft' = faultsLeft - 1
          /\ jobs' = Failed(j)
       \/ /\ faultsLeft' = faultsLeft
          /\ LET i     == jobs[j].len
                 added == Append(jobs, NewJob("contact", i, now + i * ContactDelay))
             IN jobs' = IF i + 1 < Len(contacts)
                        THEN [added EXCEPT ![j].len = i + 1]
                        ELSE SubSeq(added, 1, j - 1) \o SubSeq(added, j + 1, Len(added))
    /\ UNCHANGED <<campaign, db, reqs, tasks, now, redisUp, pauseMark>>

\* variant of SkipOnPause in which the contact job ignores the status
NeverSkip(status) == FALSE

\* campaign.queue.ts:92: a paused campaign makes the contact job return
SkipOnPause(status) == status = "paused"

\* campaign.queue.ts:86-95
ContactJobLoad(j) ==
    /\ Running(j, "contact", "load")
    /\ \/ /\ CanFault
          /\ faultsLeft' = faultsLeft - 1
          /\ jobs' = Failed(j)
       \/ /\ faultsLeft' = faultsLeft
          /\ jobs' = IF SkipOnPause(db.status)
                     THEN Completed(j)
                     ELSE [jobs EXCEPT ![j].status = db.status,
                                       ![j].successCount = db.successCount,
                                       ![j].failureCount = db.failureCount,
                                       ![j].len = Len(db.results),
                                       ![j].pc = "send"]
    /\ UNCHANGED <<campaign, db, reqs, tasks, now, redisUp, pauseMark>>

\* variant of QueueSendOutcomes in which a missing contact field does not make
\* the send throw
QueueSendUnchecked(type, contact) == Outcomes

\* campaign.queue.ts:101-138: the statuses the single send can end with; type
\* 'all' reaches the default branch and throws
QueueSendOutcomes(type, contact) ==
    CASE type = "sms"   -> IF contact.phone THEN Outcomes ELSE {"failed"}
      [] type = "email" -> IF contact.email THEN Outcomes ELSE {"failed"}
      [] type = "call"  -> IF contact.phone /\ settings = "complete" THEN Outcomes ELSE {"failed"}
      [] OTHER          -> {"failed"}

\* campaign.queue.ts:150-162
QueueResultOf(i, type, st) ==
    [contactId |-> i, methods |-> <<[method |-> type, status |-> st]>>,
     overallStatus |-> IF st = "sent" THEN "success" ELSE "failed"]

\* campaign.queue.ts:165: completion is detected on the job's own copy
AllProcessed(len, total) == len >= total

\* campaign.queue.ts:101-168
ContactJobSend(j) ==
    /\ Running(j, "contact", "send")
    /\ \E st \in QueueSendOutcomes(ctype, contacts[jobs[j].idx + 1]) :
          jobs' = [jobs EXCEPT
              ![j].inc = IF st = "sent" THEN "success" ELSE "failure",
              ![j].successCount = IF st = "sent" THEN @ + 1 ELSE @,
              ![j].failureCount = IF st = "sent" THEN @ ELSE @ + 1,
              ![j].pending = <<QueueResultOf(jobs[j].idx, ctype, st)>>,
              ![j].complete = AllProcessed(jobs[j].len + 1, db.totalContacts),
              ![j].pc = "save"]
    /\ UNCHANGED <<campaign, db, reqs, tasks, faultsLeft, now, redisUp, pauseMark>>

\* Campaign.ts:86-90: the channels the schema accepts in results.methods.method
MethodEnum == {"sms", "email", "call"}

\* document.save() validates the pushed result against the schema and throws
\* a ValidationError for a method outside the enum
Validates(pending) ==
    \A r \in 1..Len(pending) :
        \A k \in 1..Len(pending[r].methods) : pending[r].methods[k].method \in MethodEnum

\* campaign.queue.ts:170 campaign.save() of the job's copy
SaveJob(doc, job) ==
    LET saved == SaveContact(doc, job)
    IN IF job.complete THEN SetStatus(saved, job.status, "completed") ELSE saved

\* campaign.queue.ts:170-172
ContactJobSave(j) ==
    /\ Running(j, "contact", "save")
    /\ \/ /\ CanFault
          /\ faultsLeft' = faultsLeft - 1
          /\ jobs' = Failed(j)
          /\ UNCHANGED <<db, tasks>>
       \/ /\ ~Validates(jobs[j].pending)
          /\ jobs' = Failed(j)
          /\ UNCHANGED <<db, tasks, faultsLeft>>
       \/ /\ Validates(jobs[j].pending)
          /\ faultsLeft' = faultsLeft
          /\ db' = SaveJob(db, jobs[j])
          /\ tasks' = IF db'.status = "paused" THEN tasks ELSE Release(tasks)
          /\ jobs' = Completed(j)
    /\ UNCHANGED <<campaign, reqs, now, redisUp, pauseMark>>

\* the campaign after startCampaign accepted it and one start-campaign job
\* was submitted
InitQueueWith(types, kinds, sets, nPauses, nFaults) ==
    /\ ctype \in types
    /\ \E n \in 1..MaxContacts : contacts \in [1..n -> kinds]
    /\ settings \in sets
    /\ db = [NewCampaign(contacts) EXCEPT !.status = "running"]
    /\ startsLeft = 0 /\ pausesLeft = nPauses /\ faultsLeft = nFaults
    /\ pendStart = [draft |-> 0, paused |-> 0] /\ pendPause = 0
    /\ ServicesIdle
    /\ tasks = <<>>
    /\ jobs = <<NewJob("start", 0, 0)>> /\ now = 0 /\ redisUp = TRUE
    /\ pauseMark = -1

InitQueue == InitQueueWith(Types, ContactKinds, SettingsKinds, MaxPauses, MaxFaults)

\* the queue and its two processors
NextJobs ==
    \/ Tick
    \/ \E j \in DOMAIN jobs : JobTake(j)
    \/ \E j \in DOMAIN jobs : StartJobLoad(j)
    \/ \E j \in DOMAIN jobs : StartJobSave(j)
    \/ \E j \in DOMAIN jobs : StartJobEnqueue(j)
    \/ \E j \in DOMAIN jobs : ContactJobLoad(j)
    \/ \E j \in DOMAIN jobs : ContactJobSend(j)
    \/ \E j \in DOMAIN jobs : ContactJobSave(j)

NextQueue ==
    \/ PauseRead
    \/ PauseSave
    \/ NextJobs

SpecQueue == InitQueue /\ [][NextQueue]_vars

\* the queue path alone, for a campaign of any type: no pause request, no
\* store fault
InitJobs == InitQueueWith(AllTypes, AllContactKinds, AllSettingsKinds, 0, 0)

SpecJobs == InitJobs /\ [][NextJobs]_vars

\* the queue path with as many store faults as a job has attempts
InitRetry == InitQueueWith(AllTypes, ContactKinds, SettingsKinds, 0, Attempts)

SpecRetry == InitRetry /\ [][NextJobs]_vars

\* either path, for a single-channel campaign with any contacts
SingleTypes == {"sms", "email", "call"}

InitPaths ==
    \/ InitWith(SingleTypes, AllContactKinds, AllSettingsKinds, {FALSE}, 1, MaxPauses, MaxFaults)
    \/ InitQueueWith(SingleTypes, AllContactKinds, AllSettingsKinds, MaxPauses, MaxFaults)

NextPaths == Next \/ NextQueue

SpecPaths == InitPaths /\ [][NextPaths]_vars

\* ---- settings controller and cache: part_017, utils/cache.ts --------------

\* no campaign exists and no campaign request, task or job is under way
CampaignIdle ==
    /\ ctype = "sms" /\ contacts = <<>> /\ settings = "none"
    /\ db = NoCampaign
    /\ startsLeft = 0 /\ pausesLeft = 0 /\ faultsLeft = 0
    /\ pendStart = [draft |-> 0, paused |-> 0] /\ pendPause = 0
    /\ tasks = <<>>
    /\ jobs = <<>> /\ now = 0 /\ redisUp = FALSE
    /\ pauseMark = -1

campaignState ==
    <<ctype, contacts, settings, db, reqs, tasks, faultsLeft, jobs, now, redisUp, pauseMark>>

\* cache.ts:18-28: CacheManager.get; null when there is no entry
CacheGet(entry) == entry

\* part_017:18: `if (!settings)` after cache.get
CacheHit(entry) == entry # -1

\* part_017:13-18: a getSettings request reads the cache; a hit is answered
\* at once (42-45), a miss goes on to Settings.findOne
GetStart ==
    /\ Len(gets) < MaxGets
    /\ gets' = Append(gets,
           IF CacheHit(CacheGet(cached))
           THEN [pc |-> "done", val |-> CacheGet(cached), after |-> updated]
           ELSE [pc |-> "find", val |-> -1, after |-> updated])
    /\ UNCHANGED <<campaignState, retry, stored, cached, updated, upds>>

\* part_017:19: Settings.findOne reads the store
GetFind(g) ==
    /\ gets[g].pc = "find"
    /\ gets' = [gets EXCEPT ![g].val = stored, ![g].pc = "set"]
    /\ UNCHANGED <<campaignState, retry, stored, cached, updated, upds>>

\* part_017:39-45 and cache.ts:13-16: cache.set of what was read, then the answer
GetSet(g) ==
    /\ gets[g].pc = "set"
    /\ cached' = gets[g].val
    /\ gets' = [gets EXCEPT ![g].pc = "done"]
    /\ UNCHANGED <<campaignState, retry, stored, updated, upds>>

\* part_017:52-55: an updateSettings request; Settings.findOne
UpdStart ==
    /\ Len(upds) < MaxUpdates
    /\ upds' = Append(upds, [pc |-> "save", wrote |-> 0])
    /\ UNCHANGED <<campaignState, retry, stored, cached, updated, gets>>

\* part_017:65-66: Object.assign and settings.save(): the store holds a new version
UpdSave(u) ==
    /\ upds[u].pc = "save"
    /\ stored' = stored + 1
    /\ upds' = [upds EXCEPT ![u].wrote = stored + 1, ![u].pc = "delete"]
    /\ UNCHANGED <<campaignState, retry, cached, updated, gets>>

\* part_017:70-78 and cache.ts:30-32: cache.delete, then the answer
UpdDelete(u) ==
    /\ upds[u].pc = "delete"
    /\ cached' = -1
    /\ updated' = IF upds[u].wrote > updated THEN upds[u].wrote ELSE updated
    /\ upds' = [upds EXCEPT ![u].pc = "done"]
    /\ UNCHANGED <<campaignState, retry, stored, gets>>

\* cache.ts:22-25, 38-44: the entry's hour has passed
Expire ==
    /\ cached # -1
    /\ cached' = -1
    /\ UNCHANGED <<campaignState, retry, stored, updated, gets, upds>>

InitSettings ==
    /\ CampaignIdle
    /\ ServicesIdle

NextSettings ==
    \/ GetStart
    \/ \E g \in DOMAIN gets : GetFind(g)
    \/ \E g \in DOMAIN gets : GetSet(g)
    \/ UpdStart
    \/ \E u \in DOMAIN upds : UpdSave(u)
    \/ \E u \in DOMAIN upds : UpdDelete(u)
    \/ Expire

SpecSettings == InitSettings /\ [][NextSettings]_vars

\* ---- retryRequest: part_012 -----------------------------------------------

MAX_RETRIES == 3     \* part_012:8

\* what a call of requestFn ends with: 200 for a resolved request, else the
\* error's response status, 0 standing for an error without a response
Statuses == {200, 0, 404, 499, 500, 503}

\* variant of RetryAllowed that does not look at the retries left
RetryWithoutBudget(left, status) == status >= 500

\* part_012:20: retries > 0 && error.response?.status >= 500
RetryAllowed(left, status) == left > 0 /\ status >= 500

\* part_012:17-25: requestFn is called; its result is returned, or the error
\* leads to a retry or is rethrown
RetryCall ==
    /\ rpc = "call"
    /\ calls < Len(outcomes)
    /\ calls' = calls + 1
    /\ rpc' = IF outcomes[calls + 1] = 200 THEN "returned"
              ELSE IF RetryAllowed(retries, outcomes[calls + 1]) THEN "sleep"
              ELSE "thrown"
    /\ UNCHANGED <<campaignState, settingsCache, outcomes, retries>>

\* part_012:22-23: after the sleep, retryRequest(requestFn, retries - 1)
RetrySleep ==
    /\ rpc = "sleep"
    /\ retries' = retries - 1
    /\ rpc' = "call"
    /\ UNCHANGED <<campaignState, settingsCache, outcomes, calls>>

\* part_012:13-16: an invocation with the default `retries`
InitRetryRequest ==
    /\ CampaignIdle
    /\ stored = 0 /\ cached = -1 /\ updated = 0 /\ gets = <<>> /\ upds = <<>>
    /\ outcomes \in [1..MaxCalls -> Statuses]
    /\ retries = MAX_RETRIES /\ calls = 0 /\ rpc = "call"

NextRetryRequest ==
    \/ RetryCall
    \/ RetrySleep

\* the promise of requestFn settles and the timer of sleep fires
SpecRetryRequest ==
    InitRetryRequest /\ [][NextRetryRequest]_vars /\ WF_vars(NextRetryRequest)

\* ---- properties of the direct path -------------------------------------

Active(t) == tasks[t].pc \notin {"done", "crashed"}

\* C1: a run whose status re-read found the campaign paused ends without
\* marking it completed: its last step leaves the persisted status as it was.
C1_PausedRunNotCompleted ==
    [][\A t \in DOMAIN tasks :
          (tasks[t].pc = "final" /\ tasks[t].sawPause /\ tasks'[t].pc = "done")
              => db'.status = db.status]_vars

\* C2: when a run finishes its contact loop without observing a pause, the
\* persisted campaign is completed and has exactly totalContacts results.
C2_NaturalFinish ==
    [][\A t \in DOMAIN tasks :
          (tasks[t].pc = "final" /\ ~tasks[t].sawPause /\ tasks'[t].pc = "done")
              => (db'.status = "completed" /\ Len(db'.results) = db'.totalContacts)]_vars

\* C3: a run launched by startCampaign on a paused campaign that has k
\* results begins at contact k, and never processes a contact that already
\* has a result.
C3_ResumeContinues ==
    /\ [][\A t \in DOMAIN tasks :
            (tasks[t].resumed /\ tasks[t].pc = "load" /\ tasks'[t].pc \notin {"load", "catch"})
                => tasks'[t].i = Len(db.results)]_vars
    /\ [](\A t \in DOMAIN tasks :
            (tasks[t].resumed /\ tasks[t].pc = "send") =>
                \A k \in 1..Len(db.results) : db.results[k].contactId # tasks[t].i)

\* C4: at most one orchestrator task is advancing the campaign.
C4_SingleOwner ==
    Cardinality({t \in DOMAIN tasks : Active(t)}) <= 1

\* C5: a startCampaign request is never accepted (its status = running saved
\* and a task launched) on a campaign whose persisted status is running.
C5_StartRejectedWhenRunning ==
    [][(\E seen \in DOMAIN pendStart : pendStart'[seen] < pendStart[seen])
           => db.status # "running"]_vars

\* C6: once every launched task has ended the campaign is completed or
\* paused, never still running.
C6_Settles ==
    (tasks # <<>> /\ \A t \in DOMAIN tasks : ~Active(t))
        => db.status \in {"completed", "paused"}

\* C7: when the fatal handler of a run ends, the persisted status is paused.
C7_FatalPauses ==
    [][\A t \in DOMAIN tasks :
          (tasks[t].pc \in {"catch", "catchSave"} /\ tasks'[t].pc \in {"done", "crashed"})
              => db'.status = "paused"]_vars

\* C8: from the acceptance of a pause until the next accepted start, the
\* status stays paused and no result exists for a contact beyond those
\* recorded or in progress when the pause was accepted.
C8_PauseFreezes ==
    pauseMark >= 0 =>
        /\ db.status = "paused"
        /\ \A k \in 1..Len(db.results) : db.results[k].contactId < pauseMark

\* C9: a pause accepted while a task is processing contact i does not cut the
\* contact short: while the campaign stays paused the task makes every
\* channel attempt of contact i, its save appends that result, and it makes
\* no channel attempt for a later contact.
C9_CooperativePause ==
    /\ [](\A t \in DOMAIN tasks :
            LET a == tasks[t]
            IN a.heldAt >= 0 =>
                 /\ a.pc = "send" => a.i = a.heldAt
                 /\ (a.pc = "save" /\ a.i = a.heldAt) =>
                        /\ Len(a.pending[1].methods) = Len(MethodsToExecute(ctype))
                        /\ \A k \in 1..Len(MethodsToExecute(ctype)) :
                              a.pending[1].methods[k].method = MethodsToExecute(ctype)[k])
    /\ [][\A t \in DOMAIN tasks :
            LET a == tasks[t]
            IN (a.heldAt = a.i /\ a.pc = "save" /\ tasks'[t].pc \notin {"save", "catch"})
                 => db'.results = db.results \o a.pending]_vars

\* C9 witness: a pause was accepted while the task was processing a contact,
\* the contact's result was saved, and the next status re-read stopped the loop.
C9_Witness ==
    \E t \in DOMAIN tasks :
        /\ tasks[t].pc = "final" /\ tasks[t].sawPause
        /\ tasks[t].heldAt >= 0 /\ tasks[t].i = tasks[t].heldAt + 1
        /\ \E k \in 1..Len(db.results) :
              /\ db.results[k].contactId = tasks[t].heldAt
              /\ Len(db.results[k].methods) = Len(MethodsToExecute(ctype))

\* C10: results appear in contact-list order: a result for contact i+1 exists
\* only if a result for contact i exists.
C10_ResultsInOrder ==
    \A k \in 1..Len(db.results) :
        db.results[k].contactId > 0 =>
            \E j \in 1..Len(db.results) :
                db.results[j].contactId = db.results[k].contactId - 1

\* C11: the persisted successCount is the number of recorded results whose
\* overallStatus is success or partial, and the persisted failureCount is the
\* number of recorded results whose overallStatus is failed.
C11_CountersMatchResults ==
    LET with(set) == Cardinality({k \in 1..Len(db.results) : db.results[k].overallStatus \in set})
    IN /\ db.successCount = with({"success", "partial"})
       /\ db.failureCount = with({"failed"})

\* C12: every recorded result is failed when none of its methods is sent (in
\* particular when it has no method), success when it has methods and all are
\* sent, and partial otherwise.
C12_OverallStatusRule ==
    \A k \in 1..Len(db.results) :
        LET r    == db.results[k]
            sent == {x \in 1..Len(r.methods) : r.methods[x].status = "sent"}
        IN r.overallStatus =
               IF sent = {} THEN "failed"
               ELSE IF Cardinality(sent) = Len(r.methods) THEN "success"
               ELSE "partial"

\* leads.controller.ts:305, 312, 324 and campaign.queue.ts:104, 111, 123: the
\* contact has no value in the field the channel sends to
Lacks(c) == IF ctype = "email" THEN ~c.email ELSE ~c.phone

\* the result of a single-channel contact whose one attempt failed
FailedResult(i) == ResultOf(i, <<[method |-> ctype, status |-> "failed"]>>)

C14_ResultsBounded ==
    /\ [](Len(db.results) <= db.totalContacts)
    /\ [][Len(db'.results) >= Len(db.results)]_vars

\* C15: a pauseCampaign request is accepted (its status = paused saved) only
\* on a campaign whose persisted status is running, and a request that finds
\* another status leaves the document unchanged.
C15_PauseOnlyWhenRunning ==
    /\ [][pendPause' < pendPause => db.status = "running"]_vars
    /\ [][(pausesLeft' < pausesLeft /\ pendPause' = pendPause) => db' = db]_vars

\* C16: when the queue path has run all its jobs (none waiting or active) on
\* a campaign, the document is the one the direct path ends with for the same
\* contacts, type and gateway answers: status completed, one result per
\* contact in contact order, each with one method entry per channel of the
\* type carrying a status that channel can return for the contact, the
\* overallStatus that follows from them, and the counters that follow from
\* the results.
C16_PathParity ==
    (\A j \in DOMAIN jobs : jobs[j].st = "failed") =>
        /\ db.status = "completed"
        /\ Len(db.results) = Len(contacts)
        /\ \A k \in 1..Len(db.results) :
              LET r == db.results[k]
                  todo == MethodsToExecute(ctype)
              IN /\ r.contactId = k - 1
                 /\ Len(r.methods) = Len(todo)
                 /\ \A x \in 1..Len(r.methods) :
                       /\ r.methods[x].method = todo[x]
                       /\ r.methods[x].status \in DirectSendOutcomes(todo[x], contacts[r.contactId + 1])
                 /\ r.overallStatus = OverallStatus(r.methods)
        /\ db.successCount =
              Cardinality({k \in 1..Len(db.results) : db.results[k].overallStatus # "failed"})
        /\ db.failureCount =
              Cardinality({k \in 1..Len(db.results) : db.results[k].overallStatus = "failed"})

\* C17: an accepted startCampaign request submits one start-campaign job and
\* launches no task when Redis is reachable, and launches the direct task
\* without submitting a job when it is not.
C17_QueuePreferred ==
    [][(\E seen \in DOMAIN pendStart : pendStart'[seen] < pendStart[seen]) =>
           IF redisUp
           THEN tasks' = tasks /\ jobs' = Append(jobs, NewJob("start", 0, now))
           ELSE Len(tasks') = Len(tasks) + 1 /\ jobs' = jobs]_vars

\* C18: the document createCampaign stores is in status draft with no
\* results and zero counters, whatever the request body carries.
C18_CreatedAsDraft ==
    [][(db = NoCampaign /\ db' # NoCampaign) => db' = NewCampaign(contacts)]_vars

\* C19: a job is never running once it has thrown 3 times; a job is in the
\* failed set exactly when it has thrown 3 times; and a failed job stays in
\* the queue unchanged.
C19_RetryLimit ==
    /\ [](\A j \in DOMAIN jobs :
            /\ jobs[j].attemptsMade <= Attempts
            /\ jobs[j].st = "failed" <=> jobs[j].attemptsMade = Attempts
            /\ jobs[j].st = "active" => jobs[j].attemptsMade < Attempts)
    /\ [][\A j \in DOMAIN jobs :
            jobs[j].st = "failed" => \E k \in DOMAIN jobs' : jobs'[k] = jobs[j]]_vars

\* C19 witness: a job whose handler threw on each of its 3 attempts is kept
\* as failed.
C19_Witness ==
    \E j \in DOMAIN jobs : jobs[j].st = "failed" /\ jobs[j].attemptsMade = 3

\* C20: at most one process-contact job is between its load and its save of
\* the campaign, and once every job has completed the document holds one
\* result and one counted outcome per job.
C20_NoLostUpdate ==
    /\ Cardinality({j \in DOMAIN jobs :
            jobs[j].st = "active" /\ jobs[j].kind = "contact" /\ jobs[j].pc \in {"send", "save"}}) <= 1
    /\ jobs = <<>> =>
          /\ Len(db.results) = Len(contacts)
          /\ db.successCount + db.failureCount = Len(contacts)

\* C21: the queue never holds two process-contact jobs for the same contact.
C21_OneJobPerContact ==
    \A j, k \in DOMAIN jobs :
        (jobs[j].kind = "contact" /\ jobs[k].kind = "contact" /\ jobs[j].idx = jobs[k].idx)
            => j = k

\* C22: on the queue path, once no job is waiting or active (every job
\* completed or was abandoned as failed) the campaign is completed or paused.
C22_QueueSettles ==
    (\A j \in DOMAIN jobs : jobs[j].st = "failed") => db.status \in {"completed", "paused"}

\* the step changes job j and no other job
OnlyJob(j) ==
    /\ Len(jobs') = Len(jobs)
    /\ jobs'[j] # jobs[j]
    /\ \A k \in DOMAIN jobs \ {j} : jobs'[k] = jobs[k]

\* C23: the send step of a process-contact job never fails the job: whatever
\* the gateway answers, and when the contact lacks the field of the channel,
\* the job goes on to its save with a result to push (a failed one in the
\* latter case); an attempt is counted as failed only at the load or at the
\* save of the campaign, and such an attempt leaves the document unchanged;
\* the attempt that completes the job appends exactly its one result.
C23_SendFailureRecorded ==
    /\ [][\A j \in DOMAIN jobs :
            (Running(j, "contact", "send") /\ OnlyJob(j))
                => /\ jobs'[j].st = "active" /\ jobs'[j].pc = "save"
                   /\ jobs'[j].attemptsMade = jobs[j].attemptsMade
                   /\ Len(jobs'[j].pending) = 1
                   /\ jobs'[j].pending[1].contactId = jobs[j].idx
                   /\ (ctype \in SingleTypes /\ Lacks(contacts[jobs[j].idx + 1]))
                         => jobs'[j].pending[1].overallStatus = "failed"]_vars
    /\ [][\A j \in DOMAIN jobs :
            (jobs[j].st = "active" /\ jobs[j].kind = "contact" /\ OnlyJob(j)
               /\ jobs'[j].attemptsMade > jobs[j].attemptsMade)
                => /\ jobs[j].pc \in {"load", "save"}
                   /\ db' = db]_vars
    /\ [][\A j \in DOMAIN jobs :
            (Running(j, "contact", "save") /\ jobs' = Completed(j))
                => db'.results = db.results \o jobs[j].pending]_vars

\* C23 witness: a process-contact job that was retried after a failed attempt
\* is about to save the failed result of a contact without the channel's field.
C23_Witness ==
    \E j \in DOMAIN jobs :
        /\ Running(j, "contact", "save") /\ jobs[j].attemptsMade > 0
        /\ ctype \in SingleTypes /\ Lacks(contacts[jobs[j].idx + 1])
        /\ jobs[j].pending[1].overallStatus = "failed"

\* C24: the step of a process-contact job that loads a paused campaign ends
\* the job (it returns, or its load throws) without a send and leaves the
\* campaign document unchanged.
C24_PausedJobSkips ==
    [][\A j \in DOMAIN jobs :
          (Running(j, "contact", "load") /\ db.status = "paused"
             /\ (OnlyJob(j) \/ jobs' = Completed(j)))
              => /\ db' = db
                 /\ jobs' = Completed(j) \/ jobs' = Failed(j)]_vars

\* C24 witness: every job has completed, the campaign is paused and a contact
\* has no result: its job found the campaign paused.
C24_Witness ==
    /\ jobs = <<>> /\ db.status = "paused"
    /\ Len(db.results) < Len(contacts)

\* C25: in a campaign of type all every recorded result has exactly one
\* method entry for each of sms, email and call, in that order.
C25_AllChannelsRecorded ==
    ctype = "all" =>
        \A k \in 1..Len(db.results) :
            /\ Len(db.results[k].methods) = 3
            /\ db.results[k].methods[1].method = "sms"
            /\ db.results[k].methods[2].method = "email"
            /\ db.results[k].methods[3].method = "call"

\* C26: once the persisted status is completed, no step changes the status
\* or appends a result.
C26_CompletedIsTerminal ==
    [][db.status = "completed" =>
           (db'.status = "completed" /\ db'.results = db.results)]_vars

\* C27: on the direct path the persisted counters add up to the number of
\* recorded results.
C27_CountersSumToResults ==
    db.successCount + db.failureCount = Len(db.results)

\* C28: the start-campaign job does not change the status of a campaign
\* that is paused or completed when the job saves.
C28_StartJobKeepsPause ==
    [][\A j \in DOMAIN jobs :
          (Running(j, "start", "save") /\ db.status \in {"paused", "completed"}
             /\ (OnlyJob(j) \/ jobs' = Completed(j)))
              => db'.status = db.status]_vars

\* C29: a getSettings request answers with settings at least as new as the
\* last update completed before the request started, and when no request is
\* under way the cache holds nothing or the stored settings.
C29_NoStaleSettings ==
    /\ \A g \in DOMAIN gets : gets[g].pc = "done" => gets[g].val >= gets[g].after
    /\ ((\A g \in DOMAIN gets : gets[g].pc = "done") /\ (\A u \in DOMAIN upds : upds[u].pc = "done"))
          => cached \in {-1, stored}

\* C30: retryRequest calls requestFn at most MAX_RETRIES + 1 times and ends;
\* it waits for a retry only after an error with status >= 500 and while
\* retries are left; it returns at the first call that succeeds; it rethrows
\* at the first error whose status is not >= 500, or at the error of the
\* last permitted call.
C30_RetryTerminates ==
    /\ [](calls <= MAX_RETRIES + 1)
    /\ [](rpc = "sleep" => (outcomes[calls] >= 500 /\ calls <= MAX_RETRIES))
    /\ [](rpc = "returned" =>
            /\ outcomes[calls] = 200
            /\ \A k \in 1..(calls - 1) : outcomes[k] >= 500)
    /\ [](rpc = "thrown" =>
            /\ outcomes[calls] # 200
            /\ \A k \in 1..(calls - 1) : outcomes[k] >= 500
            /\ outcomes[calls] < 500 \/ calls = MAX_RETRIES + 1)
    /\ <>(rpc \in {"returned", "thrown"})

\* C30 witness: every permitted call failed with a 5xx status and the last
\* error was rethrown.
C30_Witness ==
    rpc = "thrown" /\ calls = MAX_RETRIES + 1 /\ outcomes[calls] >= 500

====
